---- MODULE Spec2Model ----
(***************************************************************************)
(* Inventory allocation and capacity accounting of the office server:      *)
(* FloorInventory (floor stock), ZoneInventory (zone allocation) and       *)
(* ZoneObject (placed object) rows of the PostgreSQL store, and the route  *)
(* handlers of the express application that read and write them.           *)
(*                                                                         *)
(* A handler run on its own is one atomic action.  The handlers whose      *)
(* interleavings matter are also modelled statement by statement, one      *)
(* action per awaited store call, under READ COMMITTED (the isolation of   *)
(* prisma.$transaction when no isolationLevel is given): every statement   *)
(* reads the latest committed rows, and the rows a transaction writes      *)
(* become visible when it commits.                                         *)
(***************************************************************************)
EXTENDS Integers, FiniteSets, Sequences, TLC

---------------------------------------------------------------------------
(* Bounds of the model *)
NumFloors == 1
NumZones == 2
MaxCount == 2
MaxStockId == 2
MaxAllocId == 2
MaxObjId == 2
NumProcs == 2

Floors == 1..NumFloors
Zones == 1..NumZones
Counts == 0..MaxCount
StockIds == 1..MaxStockId
AllocIds == 1..MaxAllocId
ObjIds == 1..MaxObjId
Procs == 1..NumProcs

(* The catalog rows the seed script loads (two of them), and a key that is *)
(* not in the catalog.                                                     *)
Catalog == {"chair", "table"}
UnknownCatalogId == "sofa"

VARIABLES
  floorInventory,  \* table FloorInventory: id -> [floorId, catalogId, count]
  zoneInventory,   \* table ZoneInventory: id -> [zoneId, floorInventoryId, quantity]
  zoneObject,      \* table ZoneObject: id -> [zoneId, zoneInventoryId, x, y, rotation]
  seq,             \* last value drawn from each table's SERIAL sequence
  resp,            \* the response of the last request that ran on its own
  req              \* the requests in flight, one per connection

vars == <<floorInventory, zoneInventory, zoneObject, seq, resp, req>>
db == <<floorInventory, zoneInventory, zoneObject, seq>>

(* The Zone rows of the store, by their floorId column: one zone on each   *)
(* floor, zone z on floor z                                                *)
ZoneFloor(z) == z

---------------------------------------------------------------------------
(* Rows and tables *)

EmptyTable == [i \in {} |-> 0]

InsertRow(table, id, row) ==
  [i \in DOMAIN table \cup {id} |-> IF i = id THEN row ELSE table[i]]

DeleteRows(table, ids) == [i \in DOMAIN table \ ids |-> table[i]]

RECURSIVE SumOver(_, _)
SumOver(f, S) ==
  IF S = {} THEN 0
  ELSE LET i == CHOOSE j \in S : TRUE IN f[i].quantity + SumOver(f, S \ {i})

AggregateSumIncludingSelf(zi, floorInventoryId, notId) ==
  SumOver(zi, {i \in DOMAIN zi : zi[i].floorInventoryId = floorInventoryId})

(* tx.zoneInventory.aggregate({ where: { floorInventoryId, NOT: { id } },  *)
(* _sum: { quantity: true } }) followed by `agg._sum.quantity ?? 0`.       *)
(* notId = 0 stands for the call without the NOT clause (ids start at 1).  *)
AggregateSumQuantity(zi, floorInventoryId, notId) ==
  SumOver(zi, {i \in DOMAIN zi :
                  zi[i].floorInventoryId = floorInventoryId /\ i # notId})

(* findUnique({ where: { zoneId_floorInventoryId: { zoneId, floorInventoryId } } }) *)
FindByZoneAndStock(zi, zoneId, floorInventoryId) ==
  {i \in DOMAIN zi :
      zi[i].zoneId = zoneId /\ zi[i].floorInventoryId = floorInventoryId}

FindNoneByFloorAndCatalog(fi, floorId, catalogId) == {}

(* findUnique on the unique index FloorInventory(floorId, catalogId) *)
FindByFloorAndCatalog(fi, floorId, catalogId) ==
  {i \in DOMAIN fi : fi[i].floorId = floorId /\ fi[i].catalogId = catalogId}

NoCascadeZoneInventory(zi, stockIds) == {}

(* ON DELETE CASCADE of ZoneInventory.floorInventoryId: the allocations    *)
(* deleted together with the stock rows `stockIds`.                        *)
CascadeZoneInventory(zi, stockIds) ==
  {i \in DOMAIN zi : zi[i].floorInventoryId \in stockIds}

NoCascadeZoneObject(zo, allocIds) == {}

(* ON DELETE CASCADE of ZoneObject.zoneInventoryId: the placements deleted *)
(* together with the allocation rows `allocIds`.                           *)
CascadeZoneObject(zo, allocIds) ==
  {i \in DOMAIN zo : zo[i].zoneInventoryId \in allocIds}

---------------------------------------------------------------------------
(* Responses *)

NoResp == [op |-> "none", status |-> 0, msg |-> "", left |-> 0, id |-> 0]

Response(op, status, msg, left, id) ==
  [op |-> op, status |-> status, msg |-> msg, left |-> left, id |-> id]

ErrNotEnough == "Not enough available. left="

(* A connection's request: the handler's position (pc), its arguments, the *)
(* values its store calls returned (count, floorInventoryId,               *)
(* zoneInventoryId, and deleted, the number of rows a deleteMany matched), *)
(* the `data` object of a Move/Rotate as <<x, y, rotation>>, the rows a    *)
(* Compute usage has found, each with the sum aggregated for it once that  *)
(* has returned (result), its response once it is done, and whether        *)
(* another request was in flight while it ran                              *)
Idle ==
  [pc |-> "idle", op |-> "none", zoneId |-> 0, id |-> 0, quantity |-> 0,
   count |-> 0, floorInventoryId |-> 0, zoneInventoryId |-> 0,
   catalogId |-> "", data |-> <<>>, deleted |-> 0, result |-> <<>>,
   resp |-> NoResp, overlap |-> FALSE]

InFlight(r) == r.pc \notin {"idle", "done"}

---------------------------------------------------------------------------
Init ==
  /\ floorInventory = EmptyTable
  /\ zoneInventory = EmptyTable
  /\ zoneObject = EmptyTable
  /\ seq = [floorInventory |-> 0, zoneInventory |-> 0, zoneObject |-> 0]
  /\ resp = NoResp
  /\ req = [p \in Procs |-> Idle]

---------------------------------------------------------------------------
(* Floor stock ledger *)

(* POST /offices/:officeId/floors/:floorId/inventory *)
CreateStockEntry(floorId, catalogId, count) ==
  /\ UNCHANGED <<zoneInventory, zoneObject, req>>
  /\ IF catalogId \notin Catalog
     THEN /\ resp' = Response("CreateStockEntry", 400, "Unknown catalogId", 0, 0)
          /\ UNCHANGED <<floorInventory, seq>>
     ELSE /\ seq.floorInventory < MaxStockId
          /\ LET id == seq.floorInventory + 1 IN
             /\ seq' = [seq EXCEPT !.floorInventory = id]
             /\ IF FindByFloorAndCatalog(floorInventory, floorId, catalogId) # {}
                THEN \* P2002 on FloorInventory_floorId_catalogId_key
                     /\ resp' = Response("CreateStockEntry", 409,
                                         "Item already exists for this floor", 0, 0)
                     /\ UNCHANGED floorInventory
                ELSE /\ floorInventory' =
                          InsertRow(floorInventory, id,
                                    [floorId |-> floorId, catalogId |-> catalogId,
                                     count |-> count])
                     /\ resp' = Response("CreateStockEntry", 201, "", 0, id)

(* DELETE /offices/:officeId/floors/:floorId/inventory/:id *)
DeleteStockEntry(id) ==
  LET allocs == CascadeZoneInventory(zoneInventory, {id})
      objs == CascadeZoneObject(zoneObject, allocs)
  IN /\ UNCHANGED <<seq, req>>
     \* zoneInventory.deleteMany({ where: { floorInventoryId: id } })
     /\ zoneInventory' = DeleteRows(zoneInventory, allocs)
     /\ zoneObject' = DeleteRows(zoneObject, objs)
     \* floorInventory.delete({ where: { id } })
     /\ IF id \in DOMAIN floorInventory
        THEN /\ floorInventory' = DeleteRows(floorInventory, {id})
             /\ resp' = Response("DeleteStockEntry", 204, "", 0, id)
        ELSE /\ UNCHANGED floorInventory
             /\ resp' = Response("DeleteStockEntry", 404,
                                 "Inventory item not found", 0, 0)

---------------------------------------------------------------------------
(* Zone allocation ledger *)

AvailableIgnoringUsed(count, used) == count

AvailableLessOne(count, used) == count - used - 1

(* `const available = fi.count - used` and                                 *)
(* `const availableForThis = row.floorInventory.count - usedOthers`        *)
Available(count, used) == count - used

NotEnoughOffByOne(quantity, available) == quantity > available + 1

(* `if (quantity > available)`: the request is refused *)
NotEnough(quantity, available) == quantity > available

(* POST /offices/:officeId/floors/:floorId/zones/:zoneId/inventory *)
Allocate(zoneId, floorInventoryId, quantity) ==
  /\ UNCHANGED <<floorInventory, zoneObject, req>>
  /\ IF floorInventoryId \notin DOMAIN floorInventory
     THEN /\ resp' = Response("Allocate", 404, "Inventory item not found", 0, 0)
          /\ UNCHANGED <<zoneInventory, seq>>
     ELSE LET fi == floorInventory[floorInventoryId]
              used == AggregateSumQuantity(zoneInventory, floorInventoryId, 0)
              available == Available(fi.count, used)
              exists == FindByZoneAndStock(zoneInventory, zoneId, floorInventoryId)
          IN IF NotEnough(quantity, available)
             THEN /\ resp' = Response("Allocate", 409, ErrNotEnough, available, 0)
                  /\ UNCHANGED <<zoneInventory, seq>>
             ELSE IF exists # {}
             THEN /\ resp' = Response("Allocate", 409,
                                      "Already attached, use PATCH", 0, 0)
                  /\ UNCHANGED <<zoneInventory, seq>>
             ELSE /\ seq.zoneInventory < MaxAllocId
                  /\ LET id == seq.zoneInventory + 1 IN
                     /\ seq' = [seq EXCEPT !.zoneInventory = id]
                     /\ zoneInventory' =
                          InsertRow(zoneInventory, id,
                                    [zoneId |-> zoneId,
                                     floorInventoryId |-> floorInventoryId,
                                     quantity |-> quantity])
                     /\ resp' = Response("Allocate", 201, "", 0, id)

(* PATCH /offices/:officeId/floors/:floorId/zones/:zoneId/inventory/:id *)
ReAllocate(id, quantity) ==
  /\ UNCHANGED <<floorInventory, zoneObject, seq, req>>
  /\ IF id \notin DOMAIN zoneInventory
     THEN /\ resp' = Response("ReAllocate", 404, "Not found", 0, 0)
          /\ UNCHANGED zoneInventory
     ELSE LET row == zoneInventory[id]
              usedOthers ==
                AggregateSumQuantity(zoneInventory, row.floorInventoryId, id)
              availableForThis ==
                Available(floorInventory[row.floorInventoryId].count, usedOthers)
          IN IF NotEnough(quantity, availableForThis)
             THEN /\ resp' = Response("ReAllocate", 409, ErrNotEnough,
                                      availableForThis, 0)
                  /\ UNCHANGED zoneInventory
             ELSE /\ zoneInventory' =
                       [zoneInventory EXCEPT ![id].quantity = quantity]
                  /\ resp' = Response("ReAllocate", 200, "", 0, id)

(* DELETE /offices/:officeId/floors/:floorId/zones/:zoneId/inventory/:id *)
Deallocate(id) ==
  /\ UNCHANGED <<floorInventory, seq, req>>
  /\ IF id \notin DOMAIN zoneInventory
     THEN /\ resp' = Response("Deallocate", 404, "Not found", 0, 0)
          /\ UNCHANGED <<zoneInventory, zoneObject>>
     ELSE /\ zoneInventory' = DeleteRows(zoneInventory, {id})
          /\ zoneObject' =
               DeleteRows(zoneObject, CascadeZoneObject(zoneObject, {id}))
          /\ resp' = Response("Deallocate", 204, "", 0, id)

---------------------------------------------------------------------------
(* Zone object placement *)

QuantityUnchangedByPlace(quantity) == quantity

(* `data: { quantity: { increment: 1 } }` in the handler of POST .../objects *)
QuantityAfterPlace(quantity) == quantity + 1

QuantityUnchangedByRemove(quantity) == quantity

(* `data: { quantity: { decrement: 1 } }` in the handler of DELETE .../objects/:id *)
QuantityAfterRemove(quantity) == quantity - 1

(* An optional body field: <<>> when the request leaves it out, <<v>> when *)
(* it gives the number v                                                   *)
Omitted == <<>>

(* `rotation: typeof rotation === "number" ? rotation : 0` *)
RotationOrDefault(rotation) == IF rotation = Omitted THEN 0 ELSE rotation[1]

PlaceInAnyZone(zoneId, zoneInventoryId, x, y, rotation) ==
  /\ UNCHANGED <<floorInventory, req>>
  /\ IF zoneInventoryId \notin DOMAIN zoneInventory
     THEN /\ resp' = Response("Place", 404, "Zone inventory not found", 0, 0)
          /\ UNCHANGED <<zoneInventory, zoneObject, seq>>
     ELSE /\ seq.zoneObject < MaxObjId
          /\ LET id == seq.zoneObject + 1 IN
             /\ seq' = [seq EXCEPT !.zoneObject = id]
             /\ zoneInventory' =
                  [zoneInventory EXCEPT ![zoneInventoryId].quantity =
                                          QuantityAfterPlace(@)]
             /\ zoneObject' =
                  InsertRow(zoneObject, id,
                            [zoneId |-> zoneId, zoneInventoryId |-> zoneInventoryId,
                             x |-> x, y |-> y,
                             rotation |-> RotationOrDefault(rotation)])
             /\ resp' = Response("Place", 201, "", 0, id)

(* POST /offices/:officeId/floors/:floorId/zones/:zoneId/objects *)
Place(zoneId, zoneInventoryId, x, y, rotation) ==
  /\ UNCHANGED <<floorInventory, req>>
  /\ IF zoneInventoryId \notin DOMAIN zoneInventory
     THEN /\ resp' = Response("Place", 404, "Zone inventory not found", 0, 0)
          /\ UNCHANGED <<zoneInventory, zoneObject, seq>>
     ELSE IF zoneInventory[zoneInventoryId].zoneId # zoneId
     THEN /\ resp' = Response("Place", 400,
                              "zoneInventoryId does not belong to this zone", 0, 0)
          /\ UNCHANGED <<zoneInventory, zoneObject, seq>>
     ELSE /\ seq.zoneObject < MaxObjId
          /\ LET id == seq.zoneObject + 1 IN
             /\ seq' = [seq EXCEPT !.zoneObject = id]
             /\ zoneInventory' =
                  [zoneInventory EXCEPT ![zoneInventoryId].quantity =
                                          QuantityAfterPlace(@)]
             /\ zoneObject' =
                  InsertRow(zoneObject, id,
                            [zoneId |-> zoneId, zoneInventoryId |-> zoneInventoryId,
                             x |-> x, y |-> y,
                             rotation |-> RotationOrDefault(rotation)])
             /\ resp' = Response("Place", 201, "", 0, id)

RemoveRefusedAtZero(zoneId, id) ==
  /\ UNCHANGED <<floorInventory, seq, req>>
  /\ IF id \notin DOMAIN zoneObject
     THEN /\ resp' = Response("Remove", 404, "Object not found", 0, 0)
          /\ UNCHANGED <<zoneInventory, zoneObject>>
     ELSE IF zoneObject[id].zoneId # zoneId
     THEN /\ resp' = Response("Remove", 400,
                              "Object does not belong to this zone", 0, 0)
          /\ UNCHANGED <<zoneInventory, zoneObject>>
     ELSE IF zoneInventory[zoneObject[id].zoneInventoryId].quantity <= 0
     THEN /\ resp' = Response("Remove", 409, "quantity is 0", 0, 0)
          /\ UNCHANGED <<zoneInventory, zoneObject>>
     ELSE LET obj == zoneObject[id] IN
          /\ zoneObject' = DeleteRows(zoneObject, {id})
          /\ zoneInventory' =
               [zoneInventory EXCEPT ![obj.zoneInventoryId].quantity =
                                       QuantityAfterRemove(@)]
          /\ resp' = Response("Remove", 204, "", 0, id)

(* DELETE /offices/:officeId/floors/:floorId/zones/:zoneId/objects/:id *)
Remove(zoneId, id) ==
  /\ UNCHANGED <<floorInventory, seq, req>>
  /\ IF id \notin DOMAIN zoneObject
     THEN /\ resp' = Response("Remove", 404, "Object not found", 0, 0)
          /\ UNCHANGED <<zoneInventory, zoneObject>>
     ELSE IF zoneObject[id].zoneId # zoneId
     THEN /\ resp' = Response("Remove", 400,
                              "Object does not belong to this zone", 0, 0)
          /\ UNCHANGED <<zoneInventory, zoneObject>>
     ELSE LET obj == zoneObject[id] IN
          /\ zoneObject' = DeleteRows(zoneObject, {id})
          \* the foreign key keeps the allocation of an existing placement, so
          \* the update finds its row and the .catch() handler is not entered
          /\ zoneInventory' =
               [zoneInventory EXCEPT ![obj.zoneInventoryId].quantity =
                                       QuantityAfterRemove(@)]
          /\ resp' = Response("Remove", 204, "", 0, id)

PatchedOrReset(old, field) == IF field = Omitted THEN 0 ELSE field[1]

(* `if (x != null) { ...; data.x = x; }` followed by `update({ data })`:   *)
(* the value a column has after the update, `field` being an optional     *)
(* number of the body                                                      *)
Patched(old, field) == IF field = Omitted THEN old ELSE field[1]

(* PATCH /offices/:officeId/floors/:floorId/zones/:zoneId/objects/:id *)
MoveRotate(zoneId, id, x, y, rotation) ==
  /\ UNCHANGED <<floorInventory, zoneInventory, seq, req>>
  /\ IF x = Omitted /\ y = Omitted /\ rotation = Omitted
     THEN /\ resp' = Response("MoveRotate", 400, "No fields to update", 0, 0)
          /\ UNCHANGED zoneObject
     ELSE IF id \notin DOMAIN zoneObject
     THEN /\ resp' = Response("MoveRotate", 404, "Object not found", 0, 0)
          /\ UNCHANGED zoneObject
     ELSE IF zoneObject[id].zoneId # zoneId
     THEN /\ resp' = Response("MoveRotate", 400,
                              "Object does not belong to this zone", 0, 0)
          /\ UNCHANGED zoneObject
     ELSE /\ zoneObject' =
               [zoneObject EXCEPT ![id].x = Patched(@, x),
                                  ![id].y = Patched(@, y),
                                  ![id].rotation = Patched(@, rotation)]
          /\ resp' = Response("MoveRotate", 200, "", 0, id)

---------------------------------------------------------------------------
(* Floor stock count *)

CountKeptByUpdate(old, count) == old

(* `data: { ...(count != null ? { count } : {}) }`: the count the row has  *)
(* after the update, `count` being an optional body field                  *)
CountAfterUpdate(old, count) == IF count = Omitted THEN old ELSE count[1]

(* PATCH /offices/:officeId/floors/:floorId/inventory/:id *)
UpdateCount(id, count) ==
  /\ UNCHANGED <<zoneInventory, zoneObject, seq, req>>
  /\ IF id \notin DOMAIN floorInventory
     THEN \* P2025 from floorInventory.update
          /\ resp' = Response("UpdateCount", 404, "Inventory item not found", 0, 0)
          /\ UNCHANGED floorInventory
     ELSE /\ floorInventory' =
               [floorInventory EXCEPT ![id].count = CountAfterUpdate(@, count)]
          /\ resp' = Response("UpdateCount", 200, "", 0, id)

---------------------------------------------------------------------------
(* Usage reads *)

(* The seed's displayName of each catalog row, as its rank in ascending    *)
(* order of displayName                                                    *)
DisplayRank == [table |-> 1, chair |-> 2]

(* `orderBy: [{ catalog: { displayName: "asc" } }]` over the stock rows ids *)
RECURSIVE OrderByDisplayName(_, _)
OrderByDisplayName(fi, ids) ==
  IF ids = {} THEN <<>>
  ELSE LET first == CHOOSE i \in ids :
                      \A j \in ids : DisplayRank[fi[i].catalogId]
                                        <= DisplayRank[fi[j].catalogId]
       IN <<first>> \o OrderByDisplayName(fi, ids \ {first})

(* `orderBy: { id: "asc" }` *)
RECURSIVE OrderById(_)
OrderById(ids) ==
  IF ids = {} THEN <<>>
  ELSE LET first == CHOOSE i \in ids : \A j \in ids : i <= j
       IN <<first>> \o OrderById(ids \ {first})

AvailableUnclamped(count, used) == count - used

(* `available: Math.max(it.count - used, 0)` *)
AvailableShown(count, used) == IF count - used > 0 THEN count - used ELSE 0

(* The element .map() builds for the stock row `id` *)
UsageOf(fi, zi, id) ==
  LET used == AggregateSumQuantity(zi, id, 0) IN
  [id |-> id, floorId |-> fi[id].floorId, catalogId |-> fi[id].catalogId,
   count |-> fi[id].count, used |-> used,
   available |-> AvailableShown(fi[id].count, used)]

(* GET /offices/:officeId/floors/:floorId/inventory/with-usage *)
ComputeUsage(floorId) ==
  /\ UNCHANGED <<db, req>>
  /\ LET items == OrderByDisplayName(
                    floorInventory,
                    {i \in DOMAIN floorInventory :
                       floorInventory[i].floorId = floorId})
         result == [k \in 1..Len(items) |->
                      UsageOf(floorInventory, zoneInventory, items[k])]
     IN resp' = [op |-> "ComputeUsage", status |-> 200, msg |-> "", left |-> 0,
                 id |-> floorId, body |-> result]

(* GET /offices/:officeId/floors/:floorId/zones/:zoneId/inventory *)
ReadUsage(zoneId) ==
  /\ UNCHANGED <<db, req>>
  /\ LET ids == OrderById({i \in DOMAIN zoneInventory :
                             zoneInventory[i].zoneId = zoneId})
         rows == [k \in 1..Len(ids) |->
                    [id |-> ids[k], zoneId |-> zoneInventory[ids[k]].zoneId,
                     floorInventoryId |-> zoneInventory[ids[k]].floorInventoryId,
                     quantity |-> zoneInventory[ids[k]].quantity]]
     IN resp' = [op |-> "ReadUsage", status |-> 200, msg |-> "", left |-> 0,
                 id |-> zoneId, body |-> rows]

---------------------------------------------------------------------------
(* Specifications.  The inputs are the values the handlers' validation     *)
(* lets through: ids and zone ids are integers, counts and quantities are  *)
(* integers >= 0, x and y are numbers.                                     *)

Quantities == 0..MaxCount

DoCreateStockEntry ==
  \E f \in Floors, c \in Catalog \cup {UnknownCatalogId}, n \in Counts :
    CreateStockEntry(f, c, n)
DoDeleteStockEntry == \E id \in StockIds : DeleteStockEntry(id)
DoAllocate ==
  \E z \in Zones, f \in StockIds, q \in Quantities : Allocate(z, f, q)
DoReAllocate == \E id \in AllocIds, q \in Quantities : ReAllocate(id, q)
DoDeallocate == \E id \in AllocIds : Deallocate(id)
DoPlace == \E z \in Zones, a \in AllocIds : Place(z, a, 0, 0, Omitted)
DoRemove == \E z \in Zones, id \in ObjIds : Remove(z, id)

(* Every handler, one request at a time *)
Next ==
  \/ DoCreateStockEntry
  \/ DoDeleteStockEntry
  \/ DoAllocate
  \/ DoReAllocate
  \/ DoDeallocate
  \/ DoPlace
  \/ DoRemove

Spec == Init /\ [][Next]_vars

(* Allocation traffic only: the stock counts stay as created and nothing   *)
(* is placed.                                                              *)
NextAlloc ==
  \/ DoCreateStockEntry
  \/ DoAllocate
  \/ DoReAllocate
  \/ DoDeallocate

SpecAlloc == Init /\ [][NextAlloc]_vars

(* The zone allocation ledger with placements drawing on it *)
NextLedger ==
  \/ DoCreateStockEntry
  \/ DoAllocate
  \/ DoReAllocate
  \/ DoDeallocate
  \/ DoPlace

SpecLedger == Init /\ [][NextLedger]_vars

(* Placement traffic on allocations that are created and never re-allocated *)
NextPlace ==
  \/ DoCreateStockEntry
  \/ DoAllocate
  \/ DoPlace
  \/ DoRemove

SpecPlace == Init /\ [][NextPlace]_vars

---------------------------------------------------------------------------
(* Concurrent requests.  Each awaited store call of a handler is one step; *)
(* a transaction's last write and its commit are one step, since nothing   *)
(* but the commit follows the write and no other transaction sees the row  *)
(* before the commit.                                                      *)

(* A request arrives on connection p and runs up to its first store call.  *)
(* It overlaps the requests in flight at that moment, and they overlap it. *)
Arrive(p, r) ==
  [q \in Procs |->
     IF q = p THEN [r EXCEPT !.overlap = \E o \in Procs \ {p} : InFlight(req[o])]
     ELSE IF InFlight(req[q]) /\ InFlight(r) THEN [req[q] EXCEPT !.overlap = TRUE]
     ELSE req[q]]

Done(r, response) == [r EXCEPT !.pc = "done", !.resp = response]

(* Allocate, `tx.floorInventory.findUnique` and `if (!fi) throw ... 404` *)
AllocFindFloorInventory(p, zoneId, floorInventoryId, quantity) ==
  /\ req[p].pc = "idle"
  /\ UNCHANGED <<db, resp>>
  /\ LET r == [Idle EXCEPT !.op = "Allocate", !.zoneId = zoneId,
                           !.id = floorInventoryId, !.quantity = quantity]
     IN IF floorInventoryId \notin DOMAIN floorInventory
        THEN req' = Arrive(p, Done(r, Response("Allocate", 404,
                                               "Inventory item not found", 0, 0)))
        ELSE req' = Arrive(p, [r EXCEPT !.pc = "aggregate",
                                 !.count = floorInventory[floorInventoryId].count])

(* Allocate, `tx.zoneInventory.aggregate` and the capacity check *)
AllocAggregate(p) ==
  /\ req[p].op = "Allocate" /\ req[p].pc = "aggregate"
  /\ UNCHANGED <<db, resp>>
  /\ LET r == req[p]
         used == AggregateSumQuantity(zoneInventory, r.id, 0)
         available == Available(r.count, used)
     IN IF NotEnough(r.quantity, available)
        THEN req' = [req EXCEPT ![p] =
                       Done(r, Response("Allocate", 409, ErrNotEnough, available, 0))]
        ELSE req' = [req EXCEPT ![p].pc = "exists"]

(* Allocate, `tx.zoneInventory.findUnique` on (zoneId, floorInventoryId) *)
AllocExists(p) ==
  /\ req[p].op = "Allocate" /\ req[p].pc = "exists"
  /\ UNCHANGED <<db, resp>>
  /\ LET r == req[p] IN
     IF FindByZoneAndStock(zoneInventory, r.zoneId, r.id) # {}
     THEN req' = [req EXCEPT ![p] =
                    Done(r, Response("Allocate", 409,
                                     "Already attached, use PATCH", 0, 0))]
     ELSE req' = [req EXCEPT ![p].pc = "create"]

(* Allocate, `tx.zoneInventory.create`, the commit and the catch clause *)
AllocCreate(p) ==
  /\ req[p].op = "Allocate" /\ req[p].pc = "create"
  /\ UNCHANGED <<floorInventory, zoneObject, resp>>
  /\ seq.zoneInventory < MaxAllocId
  /\ LET r == req[p]
         id == seq.zoneInventory + 1
     IN /\ seq' = [seq EXCEPT !.zoneInventory = id]
        /\ IF FindByZoneAndStock(zoneInventory, r.zoneId, r.id) # {}
           THEN \* P2002 on ZoneInventory_zoneId_floorInventoryId_key
                /\ req' = [req EXCEPT ![p] =
                             Done(r, Response("Allocate", 409,
                                              "Duplicate (zoneId,floorInventoryId)",
                                              0, 0))]
                /\ UNCHANGED zoneInventory
           ELSE IF r.id \notin DOMAIN floorInventory
           THEN \* P2003 on ZoneInventory_floorInventoryId_fkey goes to next(e)
                /\ req' = [req EXCEPT ![p] =
                             Done(r, Response("Allocate", 500, "P2003", 0, 0))]
                /\ UNCHANGED zoneInventory
           ELSE /\ zoneInventory' =
                     InsertRow(zoneInventory, id,
                               [zoneId |-> r.zoneId, floorInventoryId |-> r.id,
                                quantity |-> r.quantity])
                /\ req' = [req EXCEPT ![p] =
                             Done(r, Response("Allocate", 201, "", 0, id))]

(* Re-allocate, `tx.zoneInventory.findUnique({ include: { floorInventory } })`: *)
(* the row and the count of its stock, which no request of these            *)
(* specifications changes                                                   *)
ReallocFindRow(p, id, quantity) ==
  /\ req[p].pc = "idle"
  /\ UNCHANGED <<db, resp>>
  /\ LET r == [Idle EXCEPT !.op = "ReAllocate", !.id = id, !.quantity = quantity]
     IN IF id \notin DOMAIN zoneInventory
        THEN req' = Arrive(p, Done(r, Response("ReAllocate", 404, "Not found", 0, 0)))
        ELSE LET row == zoneInventory[id] IN
             req' = Arrive(p, [r EXCEPT !.pc = "aggregate",
                                 !.floorInventoryId = row.floorInventoryId,
                                 !.count = floorInventory[row.floorInventoryId].count])

(* Re-allocate, `tx.zoneInventory.aggregate` with NOT: { id } and the check *)
ReallocAggregate(p) ==
  /\ req[p].op = "ReAllocate" /\ req[p].pc = "aggregate"
  /\ UNCHANGED <<db, resp>>
  /\ LET r == req[p]
         usedOthers == AggregateSumQuantity(zoneInventory, r.floorInventoryId, r.id)
         availableForThis == Available(r.count, usedOthers)
     IN IF NotEnough(r.quantity, availableForThis)
        THEN req' = [req EXCEPT ![p] =
                       Done(r, Response("ReAllocate", 409, ErrNotEnough,
                                        availableForThis, 0))]
        ELSE req' = [req EXCEPT ![p].pc = "update"]

(* Re-allocate, `tx.zoneInventory.update`, the commit and the catch clause *)
ReallocUpdate(p) ==
  /\ req[p].op = "ReAllocate" /\ req[p].pc = "update"
  /\ UNCHANGED <<floorInventory, zoneObject, seq, resp>>
  /\ LET r == req[p] IN
     IF r.id \notin DOMAIN zoneInventory
     THEN \* P2025 carries no status and goes to next(e)
          /\ req' = [req EXCEPT ![p] =
                       Done(r, Response("ReAllocate", 500, "P2025", 0, 0))]
          /\ UNCHANGED zoneInventory
     ELSE /\ zoneInventory' = [zoneInventory EXCEPT ![r.id].quantity = r.quantity]
          /\ req' = [req EXCEPT ![p] =
                       Done(r, Response("ReAllocate", 200, "", 0, r.id))]

(* The response is sent and the connection takes the next request *)
Finish(p) ==
  /\ req[p].pc = "done"
  /\ req' = [req EXCEPT ![p] = Idle]
  /\ UNCHANGED <<db, resp>>

DoAllocSteps ==
  \E p \in Procs :
    \/ \E z \in Zones, f \in StockIds, q \in Quantities :
         AllocFindFloorInventory(p, z, f, q)
    \/ AllocAggregate(p)
    \/ AllocExists(p)
    \/ AllocCreate(p)

DoReallocSteps ==
  \E p \in Procs :
    \/ \E id \in AllocIds, q \in Quantities : ReallocFindRow(p, id, q)
    \/ ReallocAggregate(p)
    \/ ReallocUpdate(p)

DoFinish == \E p \in Procs : Finish(p)

(* The stock the concurrent requests compete for: one catalog item of one  *)
(* floor, created with any count                                           *)
DoCreateOneStockEntry == \E n \in Counts : CreateStockEntry(1, "chair", n)

(* Concurrent Allocate and Re-allocate requests on stock whose count stays *)
(* as created                                                              *)
NextConcAlloc ==
  \/ DoCreateOneStockEntry
  \/ DoAllocSteps
  \/ DoReallocSteps
  \/ DoFinish

SpecConcAlloc == Init /\ [][NextConcAlloc]_vars

(* One Allocate request per connection, all of them concurrent or not *)
NextConcPair ==
  \/ DoCreateOneStockEntry
  \/ DoAllocSteps

SpecConcPair == Init /\ [][NextConcPair]_vars

---------------------------------------------------------------------------
(* Delete stock entry, statement by statement.  The handler opens no       *)
(* transaction: each of its two store calls commits on its own.            *)

(* `prisma.zoneInventory.deleteMany({ where: { floorInventoryId: id } })` *)
DelDeleteMany(p, id) ==
  /\ req[p].pc = "idle"
  /\ UNCHANGED <<floorInventory, seq, resp>>
  /\ LET allocs == CascadeZoneInventory(zoneInventory, {id})
         objs == CascadeZoneObject(zoneObject, allocs)
     IN /\ zoneInventory' = DeleteRows(zoneInventory, allocs)
        /\ zoneObject' = DeleteRows(zoneObject, objs)
        /\ req' = Arrive(p, [Idle EXCEPT !.op = "DeleteStockEntry", !.id = id,
                                         !.pc = "delete",
                                         !.deleted = Cardinality(allocs)])

(* `prisma.floorInventory.delete({ where: { id } })` and the catch clause *)
DelDelete(p) ==
  /\ req[p].op = "DeleteStockEntry" /\ req[p].pc = "delete"
  /\ UNCHANGED <<seq, resp>>
  /\ LET r == req[p] IN
     IF r.id \notin DOMAIN floorInventory
     THEN \* P2025
          /\ req' = [req EXCEPT ![p] =
                       Done(r, Response("DeleteStockEntry", 404,
                                        "Inventory item not found", 0, 0))]
          /\ UNCHANGED <<floorInventory, zoneInventory, zoneObject>>
     ELSE LET allocs == CascadeZoneInventory(zoneInventory, {r.id})
              objs == CascadeZoneObject(zoneObject, allocs)
          IN /\ floorInventory' = DeleteRows(floorInventory, {r.id})
             /\ zoneInventory' = DeleteRows(zoneInventory, allocs)
             /\ zoneObject' = DeleteRows(zoneObject, objs)
             /\ req' = [req EXCEPT ![p] =
                          Done(r, Response("DeleteStockEntry", 204, "", 0, r.id))]

DoDeleteSteps ==
  \E p \in Procs :
    \/ \E id \in StockIds : DelDeleteMany(p, id)
    \/ DelDelete(p)

(* Concurrent Delete stock entry requests on one stock that zones allocate *)
(* from                                                                    *)
NextConcDelete ==
  \/ DoCreateOneStockEntry
  \/ DoAllocate
  \/ DoDeleteSteps
  \/ DoFinish

SpecConcDelete == Init /\ [][NextConcDelete]_vars

---------------------------------------------------------------------------
(* Create stock entry, statement by statement; no transaction is opened    *)

(* `prisma.inventoryCatalog.findUnique` and `if (!exists) return ... 400` *)
CreateFindCatalog(p, floorId, catalogId, count) ==
  /\ req[p].pc = "idle"
  /\ UNCHANGED <<db, resp>>
  /\ LET r == [Idle EXCEPT !.op = "CreateStockEntry", !.id = floorId,
                           !.catalogId = catalogId, !.count = count]
     IN IF catalogId \notin Catalog
        THEN req' = Arrive(p, Done(r, Response("CreateStockEntry", 400,
                                               "Unknown catalogId", 0, 0)))
        ELSE req' = Arrive(p, [r EXCEPT !.pc = "create"])

(* `prisma.floorInventory.create` and the inner catch clause *)
CreateInsert(p) ==
  /\ req[p].op = "CreateStockEntry" /\ req[p].pc = "create"
  /\ UNCHANGED <<zoneInventory, zoneObject, resp>>
  /\ seq.floorInventory < MaxStockId
  /\ LET r == req[p]
         id == seq.floorInventory + 1
     IN /\ seq' = [seq EXCEPT !.floorInventory = id]
        /\ IF FindByFloorAndCatalog(floorInventory, r.id, r.catalogId) # {}
           THEN \* P2002 on FloorInventory_floorId_catalogId_key
                /\ req' = [req EXCEPT ![p] =
                             Done(r, Response("CreateStockEntry", 409,
                                              "Item already exists for this floor",
                                              0, 0))]
                /\ UNCHANGED floorInventory
           ELSE /\ floorInventory' =
                     InsertRow(floorInventory, id,
                               [floorId |-> r.id, catalogId |-> r.catalogId,
                                count |-> r.count])
                /\ req' = [req EXCEPT ![p] =
                             Done(r, Response("CreateStockEntry", 201, "", 0, id))]

DoCreateSteps ==
  \E p \in Procs :
    \/ \E f \in Floors, c \in Catalog \cup {UnknownCatalogId}, n \in Counts :
         CreateFindCatalog(p, f, c, n)
    \/ CreateInsert(p)

(* One Create stock entry request per connection, on an empty store, all   *)
(* of them concurrent or not                                               *)
NextConcCreate == DoCreateSteps

SpecConcCreate == Init /\ [][NextConcCreate]_vars

---------------------------------------------------------------------------
(* Move/Rotate requests *)

(* The numbers a Move/Rotate request may carry in x, y and rotation; a     *)
(* placement is made at 0, 0 with rotation 0                               *)
MaxCoord == 1
Coords == 1..MaxCoord
OptionalCoords == {Omitted} \cup {<<c>> : c \in Coords}

DoMoveRotate ==
  \E z \in Zones, id \in ObjIds, x \in OptionalCoords, y \in OptionalCoords,
     rotation \in OptionalCoords :
    MoveRotate(z, id, x, y, rotation)

DoCreateFullStockEntry == CreateStockEntry(1, "chair", MaxCount)
DoAllocateUnit == \E z \in Zones : Allocate(z, 1, 1)

(* Placements made, moved and rotated on the allocations of one stock: one *)
(* unit of it per zone                                                     *)
NextMove ==
  \/ DoCreateFullStockEntry
  \/ DoAllocateUnit
  \/ DoPlace
  \/ DoMoveRotate

SpecMove == Init /\ [][NextMove]_vars

DoReAllocateUnit == \E id \in AllocIds : ReAllocate(id, 1)

(* Placement traffic on allocations that Allocate and Re-allocate only     *)
(* ever set to one unit                                                    *)
NextReserve ==
  \/ DoCreateFullStockEntry
  \/ DoAllocateUnit
  \/ DoReAllocateUnit
  \/ DoPlace
  \/ DoRemove

SpecReserve == Init /\ [][NextReserve]_vars

---------------------------------------------------------------------------
(* Place, Move/Rotate and Remove, statement by statement.  A row that a    *)
(* transaction has updated or deleted stays locked until it commits, so    *)
(* the writes of Place and of Remove take effect together, at the first    *)
(* of them.                                                                *)

(* Place, `tx.zoneInventory.findUnique` and the two checks on its result *)
PlaceFind(p, zoneId, zoneInventoryId) ==
  /\ req[p].pc = "idle"
  /\ UNCHANGED <<db, resp>>
  /\ LET r == [Idle EXCEPT !.op = "Place", !.zoneId = zoneId,
                           !.id = zoneInventoryId]
     IN IF zoneInventoryId \notin DOMAIN zoneInventory
        THEN req' = Arrive(p, Done(r, Response("Place", 404,
                                               "Zone inventory not found", 0, 0)))
        ELSE IF zoneInventory[zoneInventoryId].zoneId # zoneId
        THEN req' = Arrive(p, Done(r, Response("Place", 400,
                                 "zoneInventoryId does not belong to this zone",
                                 0, 0)))
        ELSE req' = Arrive(p, [r EXCEPT !.pc = "increment"])

(* Place whose update of the quantity has no effect *)
PlaceWriteNoIncrement(p) ==
  /\ req[p].op = "Place" /\ req[p].pc = "increment"
  /\ UNCHANGED <<floorInventory, zoneInventory, resp>>
  /\ seq.zoneObject < MaxObjId
  /\ LET r == req[p]
         id == seq.zoneObject + 1
     IN /\ seq' = [seq EXCEPT !.zoneObject = id]
        /\ zoneObject' =
             InsertRow(zoneObject, id,
                       [zoneId |-> r.zoneId, zoneInventoryId |-> r.id,
                        x |-> 0, y |-> 0, rotation |-> 0])
        /\ req' = [req EXCEPT ![p] = Done(r, Response("Place", 201, "", 0, id))]

(* Place, `tx.zoneInventory.update`, `tx.zoneObject.create`, the commit    *)
(* and the catch clause                                                    *)
PlaceWrite(p) ==
  /\ req[p].op = "Place" /\ req[p].pc = "increment"
  /\ UNCHANGED <<floorInventory, resp>>
  /\ LET r == req[p] IN
     IF r.id \notin DOMAIN zoneInventory
     THEN \* P2025 from the update carries no status and goes to next(e)
          /\ req' = [req EXCEPT ![p] =
                       Done(r, Response("Place", 500, "P2025", 0, 0))]
          /\ UNCHANGED <<zoneInventory, zoneObject, seq>>
     ELSE /\ seq.zoneObject < MaxObjId
          /\ LET id == seq.zoneObject + 1 IN
             /\ seq' = [seq EXCEPT !.zoneObject = id]
             /\ zoneInventory' =
                  [zoneInventory EXCEPT ![r.id].quantity = QuantityAfterPlace(@)]
             /\ zoneObject' =
                  InsertRow(zoneObject, id,
                            [zoneId |-> r.zoneId, zoneInventoryId |-> r.id,
                             x |-> 0, y |-> 0, rotation |-> RotationOrDefault(Omitted)])
             /\ req' = [req EXCEPT ![p] = Done(r, Response("Place", 201, "", 0, id))]

(* Move/Rotate, the `data` object, `prisma.zoneObject.findUnique` and the  *)
(* two checks on its result                                                *)
MoveFind(p, zoneId, id, x, y, rotation) ==
  /\ req[p].pc = "idle"
  /\ UNCHANGED <<db, resp>>
  /\ LET r == [Idle EXCEPT !.op = "MoveRotate", !.zoneId = zoneId, !.id = id,
                           !.data = <<x, y, rotation>>]
     IN IF x = Omitted /\ y = Omitted /\ rotation = Omitted
        THEN req' = Arrive(p, Done(r, Response("MoveRotate", 400,
                                               "No fields to update", 0, 0)))
        ELSE IF id \notin DOMAIN zoneObject
        THEN req' = Arrive(p, Done(r, Response("MoveRotate", 404,
                                               "Object not found", 0, 0)))
        ELSE IF zoneObject[id].zoneId # zoneId
        THEN req' = Arrive(p, Done(r, Response("MoveRotate", 400,
                                 "Object does not belong to this zone", 0, 0)))
        ELSE req' = Arrive(p, [r EXCEPT !.pc = "update"])

(* Move/Rotate, `prisma.zoneObject.update` and the catch clause *)
MoveUpdate(p) ==
  /\ req[p].op = "MoveRotate" /\ req[p].pc = "update"
  /\ UNCHANGED <<floorInventory, zoneInventory, seq, resp>>
  /\ LET r == req[p] IN
     IF r.id \notin DOMAIN zoneObject
     THEN \* P2025: the catch clause passes every error to next(e)
          /\ req' = [req EXCEPT ![p] =
                       Done(r, Response("MoveRotate", 500, "P2025", 0, 0))]
          /\ UNCHANGED zoneObject
     ELSE /\ zoneObject' =
               [zoneObject EXCEPT ![r.id].x = Patched(@, r.data[1]),
                                  ![r.id].y = Patched(@, r.data[2]),
                                  ![r.id].rotation = Patched(@, r.data[3])]
          /\ req' = [req EXCEPT ![p] =
                       Done(r, Response("MoveRotate", 200, "", 0, r.id))]

(* Remove, `tx.zoneObject.findUnique` and the two checks on its result *)
RemoveFind(p, zoneId, id) ==
  /\ req[p].pc = "idle"
  /\ UNCHANGED <<db, resp>>
  /\ LET r == [Idle EXCEPT !.op = "Remove", !.zoneId = zoneId, !.id = id]
     IN IF id \notin DOMAIN zoneObject
        THEN req' = Arrive(p, Done(r, Response("Remove", 404,
                                               "Object not found", 0, 0)))
        ELSE IF zoneObject[id].zoneId # zoneId
        THEN req' = Arrive(p, Done(r, Response("Remove", 400,
                                 "Object does not belong to this zone", 0, 0)))
        ELSE req' = Arrive(p, [r EXCEPT !.pc = "delete",
                                 !.zoneInventoryId = zoneObject[id].zoneInventoryId])

(* Remove with a delete that does not throw when its row is gone *)
RemoveWriteUnchecked(p) ==
  /\ req[p].op = "Remove" /\ req[p].pc = "delete"
  /\ UNCHANGED <<floorInventory, seq, resp>>
  /\ LET r == req[p] IN
     /\ zoneObject' = DeleteRows(zoneObject, {r.id})
     /\ zoneInventory' =
          [a \in DOMAIN zoneInventory |->
             IF a = r.zoneInventoryId
             THEN [zoneInventory[a] EXCEPT !.quantity = QuantityAfterRemove(@)]
             ELSE zoneInventory[a]]
     /\ req' = [req EXCEPT ![p] = Done(r, Response("Remove", 204, "", 0, r.id))]

(* Remove, `tx.zoneObject.delete`, `tx.zoneInventory.update`, the commit   *)
(* and the catch clause                                                    *)
RemoveWrite(p) ==
  /\ req[p].op = "Remove" /\ req[p].pc = "delete"
  /\ UNCHANGED <<floorInventory, seq, resp>>
  /\ LET r == req[p] IN
     IF r.id \notin DOMAIN zoneObject
     THEN \* P2025 from the delete: `if (e.code === "P2025")` -> 404
          /\ req' = [req EXCEPT ![p] =
                       Done(r, Response("Remove", 404, "Object not found", 0, 0))]
          /\ UNCHANGED <<zoneInventory, zoneObject>>
     ELSE /\ zoneObject' = DeleteRows(zoneObject, {r.id})
          /\ zoneInventory' =
               [zoneInventory EXCEPT ![r.zoneInventoryId].quantity =
                                       QuantityAfterRemove(@)]
          /\ req' = [req EXCEPT ![p] = Done(r, Response("Remove", 204, "", 0, r.id))]

DoPlaceSteps ==
  \E p \in Procs :
    \/ \E z \in Zones, a \in AllocIds : PlaceFind(p, z, a)
    \/ PlaceWrite(p)

DoMoveSteps ==
  \E p \in Procs :
    \/ \E z \in Zones, id \in ObjIds, x \in OptionalCoords :
         MoveFind(p, z, id, x, Omitted, Omitted)
    \/ MoveUpdate(p)

DoRemoveSteps ==
  \E p \in Procs :
    \/ \E z \in Zones, id \in ObjIds : RemoveFind(p, z, id)
    \/ RemoveWrite(p)

(* One Place, Move/Rotate or Remove request per connection, concurrent or  *)
(* not; between their statements, Deallocate requests, whose one store     *)
(* call is one step, and Place requests that run uninterrupted             *)
NextConcPlace ==
  \/ DoCreateFullStockEntry
  \/ DoAllocateUnit
  \/ DoDeallocate
  \/ DoPlace
  \/ DoPlaceSteps
  \/ DoMoveSteps
  \/ DoRemoveSteps

SpecConcPlace == Init /\ [][NextConcPlace]_vars

(* One Remove request per connection, concurrent or not, on the placements *)
(* that Place requests make                                                *)
NextConcRemove ==
  \/ DoCreateFullStockEntry
  \/ DoAllocateUnit
  \/ DoPlace
  \/ DoRemoveSteps

SpecConcRemove == Init /\ [][NextConcRemove]_vars

(* Place and Remove requests on every connection, one after another and    *)
(* concurrent, on allocations of one unit                                  *)
NextConcCounter ==
  \/ DoCreateFullStockEntry
  \/ DoAllocateUnit
  \/ DoPlaceSteps
  \/ DoRemoveSteps
  \/ DoFinish

SpecConcCounter == Init /\ [][NextConcCounter]_vars

---------------------------------------------------------------------------
(* One stock entry under every write of the three tiers *)

DoUpdateCount ==
  \E id \in StockIds, count \in {Omitted} \cup {<<n>> : n \in Counts} :
    UpdateCount(id, count)

DoComputeUsage == \E f \in Floors : ComputeUsage(f)
DoReadUsage == \E z \in Zones : ReadUsage(z)

(* Usage reads between the writes of the stock and allocation ledgers *)
NextUsage ==
  \/ DoCreateStockEntry
  \/ DoUpdateCount
  \/ DoAllocate
  \/ DoDeallocate
  \/ DoComputeUsage
  \/ DoReadUsage

SpecUsage == Init /\ [][NextUsage]_vars

---------------------------------------------------------------------------
(* Compute usage, statement by statement.  The handler opens no            *)
(* transaction: findMany and each aggregate read the rows committed at the *)
(* moment they run, and the aggregates that Promise.all awaits return in   *)
(* any order.                                                              *)

(* The body of the response: what .map() built for each row found, from    *)
(* the row as findMany returned it and the sum aggregated for it           *)
UsageBody(result) ==
  [k \in DOMAIN result |->
     LET it == result[k].item
         used == result[k].used[1]
     IN [id |-> it.id, floorId |-> it.floorId, catalogId |-> it.catalogId,
         count |-> it.count, used |-> used,
         available |-> AvailableShown(it.count, used)]]

UsageResponse(floorId, result) ==
  [op |-> "ComputeUsage", status |-> 200, msg |-> "", left |-> 0,
   id |-> floorId, body |-> UsageBody(result)]

(* `prisma.floorInventory.findMany({ where: { floorId }, orderBy })`; with *)
(* no row found, Promise.all([]) resolves and the response is sent         *)
UsageFindMany(p, floorId) ==
  /\ req[p].pc = "idle"
  /\ UNCHANGED <<db, resp>>
  /\ LET items == OrderByDisplayName(
                    floorInventory,
                    {i \in DOMAIN floorInventory :
                       floorInventory[i].floorId = floorId})
         found == [k \in 1..Len(items) |->
                     [item |-> [id |-> items[k],
                                floorId |-> floorInventory[items[k]].floorId,
                                catalogId |-> floorInventory[items[k]].catalogId,
                                count |-> floorInventory[items[k]].count],
                      used |-> Omitted]]
         r == [Idle EXCEPT !.op = "ComputeUsage", !.id = floorId,
                           !.result = found]
     IN IF items = <<>>
        THEN req' = Arrive(p, Done(r, UsageResponse(floorId, found)))
        ELSE req' = Arrive(p, [r EXCEPT !.pc = "aggregate"])

(* `prisma.zoneInventory.aggregate({ where: { floorInventoryId: it.id },   *)
(* _sum })` for the k-th row found and `agg._sum.quantity ?? 0`; after the *)
(* last of them, `res.json(result)`                                        *)
UsageAggregate(p, k) ==
  /\ req[p].op = "ComputeUsage" /\ req[p].pc = "aggregate"
  /\ k \in DOMAIN req[p].result
  /\ req[p].result[k].used = Omitted
  /\ UNCHANGED <<db, resp>>
  /\ LET r == req[p]
         used == AggregateSumQuantity(zoneInventory, r.result[k].item.id, 0)
         result == [r.result EXCEPT ![k].used = <<used>>]
     IN IF \A j \in DOMAIN result : result[j].used # Omitted
        THEN req' = [req EXCEPT ![p] =
                       Done([r EXCEPT !.result = result],
                            UsageResponse(r.id, result))]
        ELSE req' = [req EXCEPT ![p] = [r EXCEPT !.result = result]]

DoUsageSteps ==
  \E p \in Procs :
    \/ \E f \in Floors : UsageFindMany(p, f)
    \/ \E k \in 1..MaxStockId : UsageAggregate(p, k)

(* Update count requests that raise the count or leave it as it is *)
DoRaiseCount ==
  \E id \in DOMAIN floorInventory, n \in Counts :
    /\ n >= floorInventory[id].count
    /\ UpdateCount(id, <<n>>)

(* One Compute usage request per connection, concurrent or not; between   *)
(* their statements, the requests that create one stock row, raise its     *)
(* count, allocate it and deallocate it, each of which is one store call   *)
(* or one transaction                                                      *)
NextConcUsage ==
  \/ DoCreateOneStockEntry
  \/ DoRaiseCount
  \/ DoAllocate
  \/ DoDeallocate
  \/ DoUsageSteps

SpecConcUsage == Init /\ [][NextConcUsage]_vars

(* The allocation ledger of one stock whose count is updated *)
NextCounts ==
  \/ DoCreateOneStockEntry
  \/ DoUpdateCount
  \/ DoAllocate
  \/ DoReAllocate
  \/ DoDeallocate

SpecCounts == Init /\ [][NextCounts]_vars

NextQuantities ==
  \/ DoCreateOneStockEntry
  \/ DoUpdateCount
  \/ DoAllocate
  \/ DoReAllocate
  \/ DoDeallocate
  \/ DoPlace
  \/ DoRemove

SpecQuantities == Init /\ [][NextQuantities]_vars

---------------------------------------------------------------------------
(* Floor deletion *)

(* The Floor rows: the floors that stock is created on and the floors of   *)
(* the zones; and a floor id that no row has (ids start at 1)              *)
FloorRows == Floors \cup {ZoneFloor(z) : z \in Zones}
UnknownFloorId == 0

(* `tx.zone.findMany({ where: { floorId } })` *)
ZonesOfFloor(floorId) == {z \in Zones : ZoneFloor(z) = floorId}

(* The FloorInventory rows of a floor *)
StockOfFloor(fi, floorId) == {i \in DOMAIN fi : fi[i].floorId = floorId}

(* ON DELETE CASCADE of ZoneInventory.zoneId, and the rows of              *)
(* `zoneInventory.deleteMany({ where: { zoneId: { in: zoneIds } } })`      *)
ZoneInventoryOfZones(zi, zoneIds) == {a \in DOMAIN zi : zi[a].zoneId \in zoneIds}

(* ON DELETE CASCADE of ZoneObject.zoneId, and the rows of                 *)
(* `zoneObject.deleteMany({ where: { zoneId: { in: zoneIds } } })`         *)
ZoneObjectOfZones(zo, zoneIds) == {o \in DOMAIN zo : zo[o].zoneId \in zoneIds}

(* `prisma.floor.delete({ where: { id: floorId } })`: the Zone and         *)
(* FloorInventory rows of the floor go with it, and with them the          *)
(* ZoneInventory rows that reference either and the ZoneObject rows that   *)
(* reference a deleted zone or a deleted ZoneInventory row                 *)
FloorDeleteDirect(floorId) ==
  LET zoneIds == ZonesOfFloor(floorId)
      stockIds == StockOfFloor(floorInventory, floorId)
      allocIds == ZoneInventoryOfZones(zoneInventory, zoneIds)
                    \cup CascadeZoneInventory(zoneInventory, stockIds)
      objIds == ZoneObjectOfZones(zoneObject, zoneIds)
                  \cup CascadeZoneObject(zoneObject, allocIds)
  IN [floorInventory |-> DeleteRows(floorInventory, stockIds),
      zoneInventory |-> DeleteRows(zoneInventory, allocIds),
      zoneObject |-> DeleteRows(zoneObject, objIds)]

(* The fallback with foreign keys that do not cascade: only the rows its   *)
(* deleteMany calls name are deleted                                       *)
FloorDeleteFallbackNoCascade(floorId) ==
  LET zoneIds == ZonesOfFloor(floorId)
  IN [floorInventory |->
        DeleteRows(floorInventory, StockOfFloor(floorInventory, floorId)),
      zoneInventory |->
        DeleteRows(zoneInventory, ZoneInventoryOfZones(zoneInventory, zoneIds)),
      zoneObject |->
        DeleteRows(zoneObject, ZoneObjectOfZones(zoneObject, zoneIds))]

(* The transaction of the catch clause, call by call: zoneObject.deleteMany *)
(* and zoneInventory.deleteMany by zone, zone.deleteMany,                   *)
(* floorInventory.deleteMany by floor, layer.deleteMany and floor.delete,   *)
(* each with the cascades of the rows it deletes                            *)
FloorDeleteFallback(floorId) ==
  LET zoneIds == ZonesOfFloor(floorId)
      zo1 == DeleteRows(zoneObject, ZoneObjectOfZones(zoneObject, zoneIds))
      byZone == ZoneInventoryOfZones(zoneInventory, zoneIds)
      zi2 == DeleteRows(zoneInventory, byZone)
      zo2 == DeleteRows(zo1, CascadeZoneObject(zo1, byZone))
      stockIds == StockOfFloor(floorInventory, floorId)
      byStock == CascadeZoneInventory(zi2, stockIds)
      zi3 == DeleteRows(zi2, byStock)
      zo3 == DeleteRows(zo2, CascadeZoneObject(zo2, byStock))
  IN [floorInventory |-> DeleteRows(floorInventory, stockIds),
      zoneInventory |-> zi3,
      zoneObject |-> zo3]

(* DELETE /offices/:officeId/floors/:floorId: the direct delete, or, when  *)
(* it throws, the transaction of the catch clause                          *)
DeleteFloor(floorId) ==
  /\ UNCHANGED <<seq, req>>
  /\ IF floorId \notin FloorRows
     THEN /\ resp' = Response("DeleteFloor", 404, "Floor not found", 0, 0)
          /\ UNCHANGED <<floorInventory, zoneInventory, zoneObject>>
     ELSE \E after \in {FloorDeleteDirect(floorId), FloorDeleteFallback(floorId)} :
            /\ floorInventory' = after.floorInventory
            /\ zoneInventory' = after.zoneInventory
            /\ zoneObject' = after.zoneObject
            /\ resp' = Response("DeleteFloor", 204, "", 0, floorId)

(* The store is followed up to the deletion of a floor: no request is      *)
(* taken after one has succeeded                                           *)
FloorDeleted == resp.op = "DeleteFloor" /\ resp.status = 204

DoCreateStockOnFloor ==
  /\ ~FloorDeleted
  /\ \E f \in FloorRows : CreateStockEntry(f, "chair", MaxCount)
DoAllocateOnFloor ==
  /\ ~FloorDeleted
  /\ \E z \in Zones, f \in StockIds : Allocate(z, f, 1)
DoPlaceOnFloor == ~FloorDeleted /\ DoPlace
DoDeleteFloor ==
  /\ ~FloorDeleted
  /\ \E f \in FloorRows \cup {UnknownFloorId} : DeleteFloor(f)

(* Stock, allocations and placements on the floors, and the deletion of a  *)
(* floor                                                                   *)
NextFloor ==
  \/ DoCreateStockOnFloor
  \/ DoAllocateOnFloor
  \/ DoPlaceOnFloor
  \/ DoDeleteFloor

SpecFloor == Init /\ [][NextFloor]_vars

---------------------------------------------------------------------------
(* What the properties below measure, written over the tables themselves   *)

RECURSIVE TotalQuantity(_)
TotalQuantity(rows) ==
  IF rows = {} THEN 0
  ELSE LET r == CHOOSE x \in rows : TRUE IN r[2] + TotalQuantity(rows \ {r})

(* Sum of quantity over the allocations of stock f, except allocation `but` *)
AllocatedSumBut(zi, f, but) ==
  TotalQuantity({<<i, zi[i].quantity>> :
                   i \in {j \in DOMAIN zi : zi[j].floorInventoryId = f /\ j # but}})

AllocatedSum(zi, f) == AllocatedSumBut(zi, f, 0)

(* The placements that reference allocation a *)
PlacementsOf(zo, a) == {o \in DOMAIN zo : zo[o].zoneInventoryId = a}

(* The error kind of a response, read off its status and the message of   *)
(* its JSON error body; 500 is what express answers after next(e).         *)
ErrorKind(r) ==
  CASE r.status \in {200, 201, 204} -> "Ok"
    [] r.status = 404 -> "NotFound"
    [] r.status = 409 /\ r.msg = ErrNotEnough -> "CapacityExceeded"
    [] r.status = 409 -> "Conflict"
    [] r.status = 400 /\ r.msg \in {"zoneInventoryId does not belong to this zone",
                                    "Object does not belong to this zone",
                                    "Unknown catalogId"} -> "InvalidReference"
    [] r.status = 400 -> "BadRequest"
    [] OTHER -> "Fault"

NoOvercommit(fi, zi) == \A f \in DOMAIN fi : AllocatedSum(zi, f) <= fi[f].count

---------------------------------------------------------------------------
(* C1. No overcommit, sequential: under Allocate, Re-allocate and          *)
(* Deallocate requests that run one at a time on stock whose count is not  *)
(* changed, the quantities allocated from a FloorStock never sum to more   *)
(* than its count.                                                         *)
C1_NoOvercommitSequential ==
  \A f \in DOMAIN floorInventory :
    AllocatedSum(zoneInventory, f) <= floorInventory[f].count

(* A stock fully allocated to two zones, the second allocation having been *)
(* raised to the last free unit by a Re-allocate                           *)
C1_Witness ==
  /\ resp.op = "ReAllocate" /\ resp.status = 200
  /\ \E f \in DOMAIN floorInventory :
       /\ floorInventory[f].count = MaxCount
       /\ AllocatedSum(zoneInventory, f) = MaxCount
       /\ Cardinality({a \in DOMAIN zoneInventory :
                         zoneInventory[a].floorInventoryId = f
                         /\ zoneInventory[a].quantity > 0}) = 2

(* C2. No overcommit, concurrent: whenever an Allocate or Re-allocate      *)
(* request that ran interleaved with others has committed, the quantities  *)
(* allocated from each FloorStock sum to at most its count.                *)
C2_NoOvercommitConcurrent ==
  (\E p \in Procs : req[p].pc = "done" /\ req[p].resp.status \in {200, 201})
    => NoOvercommit(floorInventory, zoneInventory)

(* C3. Placement re-validates the tier above: a Place or a Remove never    *)
(* takes the allocated sum of a FloorStock from within its count to above  *)
(* it.                                                                     *)
C3_PlacementKeepsFloorTotal ==
  [][(resp'.op \in {"Place", "Remove"}
        /\ NoOvercommit(floorInventory, zoneInventory))
       => NoOvercommit(floorInventory', zoneInventory')]_vars

(* C4. No over-placement under placement operations: under Place and       *)
(* Remove on allocations that are never re-allocated, the placements that  *)
(* reference an allocation never outnumber its quantity.                   *)
C4_NoOverPlacement ==
  \A a \in DOMAIN zoneInventory :
    Cardinality(PlacementsOf(zoneObject, a)) <= zoneInventory[a].quantity

(* Every placement id has been handed out by a Place, a Remove has just    *)
(* deleted one placement, and an allocation still holds the others         *)
C4_Witness ==
  /\ resp.op = "Remove" /\ resp.status = 204
  /\ seq.zoneObject = MaxObjId
  /\ \E a \in DOMAIN zoneInventory :
       Cardinality(PlacementsOf(zoneObject, a)) = MaxObjId - 1

(* C5. No over-placement in every reachable state: also with Re-allocate   *)
(* between the placements, the number of placements of an allocation is at *)
(* most its quantity.                                                      *)
C5_NoOverPlacementAnyState ==
  \A o \in DOMAIN zoneObject :
    LET a == zoneObject[o].zoneInventoryId IN
    zoneInventory[a].quantity >= Cardinality(PlacementsOf(zoneObject, a))

(* C6. Scenario B generalised: once an allocation created with quantity n *)
(* holds n placements, a further Place on it inserts no placement row.     *)
(* Under SpecPlace the quantity an allocation was created with is its      *)
(* quantity less one unit per placement it holds: Place adds a unit with   *)
(* each row, Remove takes one with each row, and nothing else writes it.   *)
C6_PlaceBeyondQuantityRejected ==
  [][\A a \in DOMAIN zoneInventory :
       LET placed == Cardinality(PlacementsOf(zoneObject, a))
           n == zoneInventory[a].quantity - placed
       IN placed >= n
            => PlacementsOf(zoneObject', a) \subseteq PlacementsOf(zoneObject, a)]_vars

(* C7. Allocate decision: on an absent FloorStock Allocate answers         *)
(* NotFound; on an existing one, for a (zone, stock) pair with no          *)
(* allocation yet, it inserts exactly one row with exactly the requested   *)
(* quantity when quantity <= count - allocated sum, and otherwise answers  *)
(* CapacityExceeded with the figure count - allocated sum and inserts      *)
(* nothing.                                                                *)
C7_AllocateDecision ==
  [][\A z \in Zones, f \in StockIds, q \in Quantities :
       (resp'.op = "Allocate" /\ Allocate(z, f, q)) =>
         IF f \notin DOMAIN floorInventory
         THEN ErrorKind(resp') = "NotFound" /\ zoneInventory' = zoneInventory
         ELSE (\A a \in DOMAIN zoneInventory :
                 ~(zoneInventory[a].zoneId = z
                   /\ zoneInventory[a].floorInventoryId = f))
              => LET free == floorInventory[f].count - AllocatedSum(zoneInventory, f)
                 IN IF q <= free
                    THEN /\ resp'.status = 201
                         /\ \E id \in AllocIds \ DOMAIN zoneInventory :
                              /\ DOMAIN zoneInventory' = DOMAIN zoneInventory \cup {id}
                              /\ zoneInventory'[id] =
                                   [zoneId |-> z, floorInventoryId |-> f,
                                    quantity |-> q]
                              /\ \A a \in DOMAIN zoneInventory :
                                   zoneInventory'[a] = zoneInventory[a]
                    ELSE /\ ErrorKind(resp') = "CapacityExceeded"
                         /\ resp'.left = free
                         /\ zoneInventory' = zoneInventory]_vars

(* An Allocate was refused with one unit reported free, on a stock part of *)
(* which another zone holds                                                *)
C7_Witness ==
  /\ resp.op = "Allocate"
  /\ ErrorKind(resp) = "CapacityExceeded"
  /\ resp.left = 1
  /\ \E a \in DOMAIN zoneInventory : zoneInventory[a].quantity = 1

(* C8. Re-allocate decision: on an absent allocation Re-allocate answers   *)
(* NotFound; on an existing one it sets the quantity to exactly the new    *)
(* quantity when that is <= count - sum of the other allocations of the    *)
(* same stock, and otherwise answers CapacityExceeded with that figure and *)
(* leaves the quantity as it was.                                          *)
C8_ReAllocateDecision ==
  [][\A id \in AllocIds, q \in Quantities :
       (resp'.op = "ReAllocate" /\ ReAllocate(id, q)) =>
         IF id \notin DOMAIN zoneInventory
         THEN ErrorKind(resp') = "NotFound" /\ zoneInventory' = zoneInventory
         ELSE LET f == zoneInventory[id].floorInventoryId
                  availableForThis ==
                    floorInventory[f].count - AllocatedSumBut(zoneInventory, f, id)
              IN IF q <= availableForThis
                 THEN /\ resp'.status = 200
                      /\ zoneInventory' = [zoneInventory EXCEPT ![id].quantity = q]
                 ELSE /\ ErrorKind(resp') = "CapacityExceeded"
                      /\ resp'.left = availableForThis
                      /\ zoneInventory' = zoneInventory]_vars

(* A Re-allocate was refused with one unit reported available for it,      *)
(* while another allocation of the same stock holds a unit                 *)
C8_Witness ==
  /\ resp.op = "ReAllocate"
  /\ ErrorKind(resp) = "CapacityExceeded"
  /\ resp.left = 1
  /\ \E a, b \in DOMAIN zoneInventory :
       /\ a # b
       /\ zoneInventory[a].floorInventoryId = zoneInventory[b].floorInventoryId
       /\ zoneInventory[b].quantity = 1

(* C9. Conflict exclusivity: there is at most one ZoneAllocation per       *)
(* (zoneId, floorStockId), and of two Allocate requests for the same pair  *)
(* that ran concurrently, each asking no more than the stock has free for  *)
(* that pair, exactly one succeeded and the other was answered Conflict.   *)
C9_ConflictExclusivity ==
  /\ \A a, b \in DOMAIN zoneInventory :
       (zoneInventory[a].zoneId = zoneInventory[b].zoneId
        /\ zoneInventory[a].floorInventoryId = zoneInventory[b].floorInventoryId)
         => a = b
  /\ \A p, q \in Procs :
       LET rp == req[p]
           rq == req[q]
           others == {a \in DOMAIN zoneInventory :
                        zoneInventory[a].floorInventoryId = rp.id
                        /\ zoneInventory[a].zoneId # rp.zoneId}
           free == floorInventory[rp.id].count
                     - TotalQuantity({<<a, zoneInventory[a].quantity>> : a \in others})
       IN (/\ p # q
           /\ rp.pc = "done" /\ rq.pc = "done"
           /\ rp.op = "Allocate" /\ rq.op = "Allocate"
           /\ rp.zoneId = rq.zoneId /\ rp.id = rq.id
           /\ rp.overlap /\ rq.overlap
           /\ rp.id \in DOMAIN floorInventory
           /\ rp.quantity <= free /\ rq.quantity <= free)
          => \/ rp.resp.status = 201 /\ ErrorKind(rq.resp) = "Conflict"
             \/ rq.resp.status = 201 /\ ErrorKind(rp.resp) = "Conflict"

NoOrphans ==
  /\ \A a \in DOMAIN zoneInventory :
       zoneInventory[a].floorInventoryId \in DOMAIN floorInventory
  /\ \A o \in DOMAIN zoneObject :
       zoneObject[o].zoneInventoryId \in DOMAIN zoneInventory

(* C10. Cascading stock deletion: a Delete stock entry that succeeds       *)
(* leaves neither the FloorStock, nor any ZoneAllocation that referenced   *)
(* it, nor any ZoneObjectPlacement of those allocations; and in every      *)
(* state each ZoneAllocation references an existing FloorStock and each    *)
(* ZoneObjectPlacement an existing ZoneAllocation.                         *)
C10_CascadingStockDeletion ==
  /\ []NoOrphans
  /\ [][(resp'.op = "DeleteStockEntry" /\ resp'.status = 204) =>
          LET id == resp'.id
              allocs == {a \in DOMAIN zoneInventory :
                           zoneInventory[a].floorInventoryId = id}
              objs == {o \in DOMAIN zoneObject :
                         zoneObject[o].zoneInventoryId \in allocs}
          IN /\ id \in DOMAIN floorInventory
             /\ id \notin DOMAIN floorInventory'
             /\ allocs \cap DOMAIN zoneInventory' = {}
             /\ objs \cap DOMAIN zoneObject' = {}]_vars

(* The only stock ever created has been deleted after two allocations and *)
(* two placements were made on it, and no row is left                      *)
C10_Witness ==
  /\ resp.op = "DeleteStockEntry" /\ resp.status = 204
  /\ seq.floorInventory = 1
  /\ seq.zoneInventory = 2 /\ seq.zoneObject = 2
  /\ DOMAIN floorInventory = {}
  /\ DOMAIN zoneInventory = {} /\ DOMAIN zoneObject = {}

(* C11. Non-negative quantities: in every state reached by Create stock    *)
(* entry, Update count, Allocate, Re-allocate, Deallocate, Place and       *)
(* Remove, every ZoneAllocation.quantity is >= 0 and every FloorStock      *)
(* count is >= 0.                                                          *)
C11_NonNegativeQuantities ==
  /\ \A a \in DOMAIN zoneInventory : zoneInventory[a].quantity >= 0
  /\ \A f \in DOMAIN floorInventory : floorInventory[f].count >= 0

(* C12. No partial effect on failure: a request that returns a failure has *)
(* changed no FloorStock, ZoneAllocation or ZoneObjectPlacement row.  For  *)
(* a request that ran on its own the tables are the same before and after  *)
(* it; for a Delete stock entry that ran interleaved with others, its      *)
(* deleteMany matched no row.                                              *)
C12_NoPartialEffectOnFailure ==
  /\ [][(req' = req /\ ErrorKind(resp') # "Ok")
         => UNCHANGED <<floorInventory, zoneInventory, zoneObject>>]_vars
  /\ [](\A p \in Procs :
         (req[p].pc = "done" /\ req[p].op = "DeleteStockEntry"
          /\ ErrorKind(req[p].resp) # "Ok") => req[p].deleted = 0)

(* C13. Place reference checks: Place answers NotFound when the allocation *)
(* does not exist and InvalidReference when the allocation's zoneId is not *)
(* the given zoneId, inserting no placement and leaving every allocation   *)
(* as it was; and in every state each ZoneObjectPlacement has the zoneId   *)
(* of the ZoneAllocation it references.                                    *)
C13_PlaceReferenceChecks ==
  /\ [](\A o \in DOMAIN zoneObject :
         LET a == zoneObject[o].zoneInventoryId IN
         a \in DOMAIN zoneInventory /\ zoneObject[o].zoneId = zoneInventory[a].zoneId)
  /\ [][\A z \in Zones, a \in AllocIds :
         (resp'.op = "Place" /\ Place(z, a, 0, 0, Omitted)) =>
           IF a \notin DOMAIN zoneInventory
           THEN /\ ErrorKind(resp') = "NotFound"
                /\ UNCHANGED <<zoneInventory, zoneObject>>
           ELSE zoneInventory[a].zoneId # z
                  => /\ ErrorKind(resp') = "InvalidReference"
                     /\ UNCHANGED <<zoneInventory, zoneObject>>]_vars

(* A Place naming an allocation of another zone has been refused, while    *)
(* that allocation holds a placement made in its own zone                  *)
C13_Witness ==
  /\ resp.op = "Place" /\ ErrorKind(resp) = "InvalidReference"
  /\ \E o \in DOMAIN zoneObject :
       zoneObject[o].zoneId = zoneInventory[zoneObject[o].zoneInventoryId].zoneId

(* C14. Remove restores what Place consumed: a successful Place inserts    *)
(* one placement and changes its allocation's quantity by one unit; a      *)
(* successful Remove deletes exactly the named placement and changes its   *)
(* allocation's quantity by one unit the other way, every other row        *)
(* staying as it was.  Hence a Place followed at once by the Remove of the *)
(* placement it created leaves the quantity and the placements as they     *)
(* were before the Place.                                                  *)
C14_RemoveUndoesPlace ==
  [][/\ (resp'.op = "Place" /\ resp'.status = 201) =>
          LET id == resp'.id
              a == zoneObject'[id].zoneInventoryId
          IN /\ id \notin DOMAIN zoneObject
             /\ DOMAIN zoneObject' = DOMAIN zoneObject \cup {id}
             /\ \A o \in DOMAIN zoneObject : zoneObject'[o] = zoneObject[o]
             /\ zoneInventory' = [zoneInventory EXCEPT ![a].quantity = @ + 1]
     /\ (resp'.op = "Remove" /\ resp'.status = 204) =>
          LET id == resp'.id
              a == zoneObject[id].zoneInventoryId
          IN /\ id \in DOMAIN zoneObject
             /\ DOMAIN zoneObject' = DOMAIN zoneObject \ {id}
             /\ \A o \in DOMAIN zoneObject' : zoneObject'[o] = zoneObject[o]
             /\ zoneInventory' = [zoneInventory EXCEPT ![a].quantity = @ - 1]
     /\ (resp.op = "Place" /\ resp.status = 201
         /\ resp'.op = "Remove" /\ resp'.status = 204 /\ resp'.id = resp.id) =>
          LET a == zoneObject[resp.id].zoneInventoryId IN
          \* the state before the Place: this state less the Place's effect
          /\ zoneObject' = [o \in DOMAIN zoneObject \ {resp.id} |-> zoneObject[o]]
          /\ zoneInventory'[a].quantity + 1 = zoneInventory[a].quantity]_vars

(* The placement made last has been removed again, no placement is left,   *)
(* and its allocation holds the quantity it was created with               *)
C14_Witness ==
  /\ resp.op = "Remove" /\ resp.status = 204
  /\ resp.id = seq.zoneObject
  /\ DOMAIN zoneObject = {}
  /\ \E a \in DOMAIN zoneInventory : zoneInventory[a].quantity = MaxCount

(* C15. Compute usage returns, for every FloorStock of the floor and no    *)
(* other, its count, used = the sum of the quantities allocated from it    *)
(* and available = max(count - used, 0), never negative; Compute usage and *)
(* Read usage change no row; and a call that follows a call of the same    *)
(* read with no write in between returns the same result.                  *)
C15_ComputeUsage ==
  [][/\ resp'.op = "ComputeUsage" =>
          /\ UNCHANGED <<floorInventory, zoneInventory, zoneObject>>
          /\ {resp'.body[k].id : k \in DOMAIN resp'.body}
               = {f \in DOMAIN floorInventory :
                    floorInventory[f].floorId = resp'.id}
          /\ Len(resp'.body) = Cardinality({resp'.body[k].id :
                                              k \in DOMAIN resp'.body})
          /\ \A k \in DOMAIN resp'.body :
               LET e == resp'.body[k]
                   sum == AllocatedSum(zoneInventory, e.id)
               IN /\ e.count = floorInventory[e.id].count
                  /\ e.used = sum
                  /\ e.available >= 0
                  /\ e.available = IF e.count >= sum THEN e.count - sum ELSE 0
          /\ (resp.op = "ComputeUsage" /\ resp.id = resp'.id) => resp' = resp
     /\ resp'.op = "ReadUsage" =>
          /\ UNCHANGED <<floorInventory, zoneInventory, zoneObject>>
          /\ (resp.op = "ReadUsage" /\ resp.id = resp'.id) => resp' = resp]_vars

(* Compute usage has reported a stock whose count was lowered below what   *)
(* is allocated from it: used exceeds count and available is 0             *)
C15_Witness ==
  /\ resp.op = "ComputeUsage"
  /\ \E k \in DOMAIN resp.body :
       /\ resp.body[k].used > resp.body[k].count
       /\ resp.body[k].available = 0
       /\ resp.body[k].count < MaxCount

(* C16. Update count is unvalidated against allocations: on an existing    *)
(* FloorStock, Update count with a new count >= 0 succeeds and sets the    *)
(* count to it, also when it is below the sum allocated from the stock; on *)
(* an absent id it answers NotFound and changes no FloorStock; in both     *)
(* cases no ZoneAllocation and no ZoneObjectPlacement changes.             *)
C16_UpdateCountUnvalidated ==
  [][\A id \in StockIds, n \in Counts :
       (resp'.op = "UpdateCount" /\ UpdateCount(id, <<n>>)) =>
         /\ UNCHANGED <<zoneInventory, zoneObject>>
         /\ IF id \in DOMAIN floorInventory
            THEN /\ resp'.status = 200
                 /\ floorInventory' = [floorInventory EXCEPT ![id].count = n]
            ELSE /\ ErrorKind(resp') = "NotFound"
                 /\ floorInventory' = floorInventory]_vars

(* An Update count has succeeded in setting the count of a stock below the *)
(* quantity allocated from it, part of which is placed                     *)
C16_Witness ==
  /\ resp.op = "UpdateCount" /\ resp.status = 200
  /\ resp.id \in DOMAIN floorInventory
  /\ AllocatedSum(zoneInventory, resp.id) > floorInventory[resp.id].count
  /\ zoneObject # EmptyTable

(* C17. Deallocate cascades: on an existing allocation Deallocate deletes  *)
(* that allocation and every ZoneObjectPlacement that references it, and   *)
(* changes no other allocation, no placement of another allocation and no  *)
(* FloorStock; on an absent id it answers NotFound and changes nothing.    *)
C17_DeallocateCascades ==
  [][\A id \in AllocIds :
       (resp'.op = "Deallocate" /\ Deallocate(id)) =>
         /\ floorInventory' = floorInventory
         /\ IF id \in DOMAIN zoneInventory
            THEN /\ resp'.status = 204
                 /\ DOMAIN zoneInventory' = DOMAIN zoneInventory \ {id}
                 /\ \A b \in DOMAIN zoneInventory' :
                      zoneInventory'[b] = zoneInventory[b]
                 /\ DOMAIN zoneObject' =
                      {o \in DOMAIN zoneObject : zoneObject[o].zoneInventoryId # id}
                 /\ \A o \in DOMAIN zoneObject' : zoneObject'[o] = zoneObject[o]
            ELSE /\ ErrorKind(resp') = "NotFound"
                 /\ UNCHANGED <<zoneInventory, zoneObject>>]_vars

(* Of two allocations holding a placement each, one has been deallocated:  *)
(* the other and its placement are left                                    *)
C17_Witness ==
  /\ resp.op = "Deallocate" /\ resp.status = 204
  /\ \E a \in DOMAIN zoneInventory, o \in DOMAIN zoneObject :
       /\ DOMAIN zoneInventory = {a} /\ DOMAIN zoneObject = {o}
       /\ a # resp.id
       /\ zoneObject[o].zoneInventoryId = a
       /\ zoneInventory[a].quantity = MaxCount + 1
  /\ seq.zoneInventory = 2 /\ seq.zoneObject = 2

(* C18. Move/Rotate is a partial update: on an existing placement of the   *)
(* given zone, with at least one of x, y, rotation supplied, it overwrites *)
(* exactly the supplied fields and leaves the others, the placement's      *)
(* zoneId and zoneAllocationId, every other placement and every            *)
(* ZoneAllocation unchanged.  Otherwise it fails and changes nothing, with *)
(* a kind whose condition holds: BadRequest (no field supplied), NotFound  *)
(* (placement absent), InvalidReference (placement of another zone).       *)
C18_MoveRotatePartialUpdate ==
  [][resp'.op = "MoveRotate" =>
     \A z \in Zones, id \in ObjIds, x \in OptionalCoords, y \in OptionalCoords,
        r \in OptionalCoords :
       MoveRotate(z, id, x, y, r) =>
         LET kinds ==
               {k \in {"BadRequest", "NotFound", "InvalidReference"} :
                  \/ k = "BadRequest" /\ x = <<>> /\ y = <<>> /\ r = <<>>
                  \/ k = "NotFound" /\ id \notin DOMAIN zoneObject
                  \/ k = "InvalidReference" /\ id \in DOMAIN zoneObject
                       /\ zoneObject[id].zoneId # z}
         IN /\ UNCHANGED <<floorInventory, zoneInventory>>
            /\ IF kinds # {}
               THEN ErrorKind(resp') \in kinds /\ zoneObject' = zoneObject
               ELSE /\ resp'.status = 200
                    /\ DOMAIN zoneObject' = DOMAIN zoneObject
                    /\ \A o \in DOMAIN zoneObject \ {id} :
                         zoneObject'[o] = zoneObject[o]
                    /\ zoneObject'[id].zoneId = zoneObject[id].zoneId
                    /\ zoneObject'[id].zoneInventoryId = zoneObject[id].zoneInventoryId
                    /\ zoneObject'[id].x =
                         IF x = <<>> THEN zoneObject[id].x ELSE x[1]
                    /\ zoneObject'[id].y =
                         IF y = <<>> THEN zoneObject[id].y ELSE y[1]
                    /\ zoneObject'[id].rotation =
                         IF r = <<>> THEN zoneObject[id].rotation ELSE r[1]]_vars

(* A placement has been moved and rotated by requests that left y out: x   *)
(* and rotation carry the new value, y the value it was placed with, while *)
(* another placement is where it was placed                                *)
C18_Witness ==
  /\ resp.op = "MoveRotate" /\ resp.status = 200
  /\ zoneObject[resp.id].x = MaxCoord
  /\ zoneObject[resp.id].y = 0
  /\ zoneObject[resp.id].rotation = MaxCoord
  /\ \E o \in DOMAIN zoneObject \ {resp.id} :
       zoneObject[o].x = 0 /\ zoneObject[o].rotation = 0

(* C19. Create stock entry: a request whose catalogId is not in the        *)
(* catalog is answered InvalidReference; of the requests for the same      *)
(* (floorId, catalogId) made on a store with no stock for it, one after    *)
(* the other or concurrently, exactly one succeeds and every other is      *)
(* answered Conflict; a request that fails creates no row; and in every    *)
(* state there is at most one FloorStock per (floorId, catalogId).         *)
C19_CreateStockEntry ==
  /\ \A a, b \in DOMAIN floorInventory :
       (floorInventory[a].floorId = floorInventory[b].floorId
        /\ floorInventory[a].catalogId = floorInventory[b].catalogId) => a = b
  /\ Cardinality(DOMAIN floorInventory)
       = Cardinality({p \in Procs : req[p].pc = "done" /\ req[p].resp.status = 201})
  /\ \A p \in Procs :
       (req[p].pc = "done" /\ req[p].op = "CreateStockEntry"
        /\ req[p].catalogId \notin Catalog)
         => ErrorKind(req[p].resp) = "InvalidReference"
  /\ \A p \in Procs :
       (req[p].pc = "done" /\ req[p].op = "CreateStockEntry"
        /\ req[p].catalogId \in Catalog)
         => LET same == {q \in Procs \ {p} :
                           /\ req[q].pc = "done" /\ req[q].op = "CreateStockEntry"
                           /\ req[q].id = req[p].id
                           /\ req[q].catalogId = req[p].catalogId}
            IN IF req[p].resp.status = 201
               THEN \A q \in same : ErrorKind(req[q].resp) = "Conflict"
               ELSE /\ ErrorKind(req[p].resp) = "Conflict"
                    /\ \E q \in same : req[q].resp.status = 201

(* Two requests for the same pair overlapped; one created the stock and    *)
(* the other lost the race at the unique index                             *)
C19_Witness ==
  \E p, q \in Procs :
    /\ req[p].pc = "done" /\ req[q].pc = "done"
    /\ req[p].overlap /\ req[q].overlap
    /\ req[p].id = req[q].id /\ req[p].catalogId = req[q].catalogId
    /\ req[p].resp.status = 201
    /\ ErrorKind(req[q].resp) = "Conflict"
    /\ Cardinality(DOMAIN floorInventory) = 1

(* C20. Typed failures under any interleaving: every failure that an       *)
(* Allocate, Re-allocate, Deallocate, Place, Move/Rotate or Remove request *)
(* returns is one of NotFound, InvalidReference, Conflict,                 *)
(* CapacityExceeded and BadRequest, also when a concurrent request deleted *)
(* the row it targets between its read and its write.                      *)
C20_TypedFailures ==
  LET Typed == {"Ok", "NotFound", "InvalidReference", "Conflict",
                "CapacityExceeded", "BadRequest"}
      Ops == {"Allocate", "ReAllocate", "Deallocate", "Place", "MoveRotate",
              "Remove"}
  IN /\ resp.op \in Ops => ErrorKind(resp) \in Typed
     /\ \A p \in Procs :
          (req[p].pc = "done" /\ req[p].op \in Ops)
            => ErrorKind(req[p].resp) \in Typed

(* C21. Delete stock entry is atomic with respect to concurrent requests:  *)
(* no Allocate commits on a FloorStock while a Delete stock entry of that  *)
(* stock has removed its ZoneAllocations and not yet the FloorStock row,   *)
(* and the step of a Delete stock entry that removes the FloorStock row    *)
(* removes no ZoneAllocation made after the Delete started.                *)
C21_DeleteStockEntryAtomic ==
  [][/\ (req' = req /\ resp'.op = "Allocate" /\ resp'.status = 201) =>
          ~\E p \in Procs :
             /\ req[p].op = "DeleteStockEntry" /\ req[p].pc = "delete"
             /\ req[p].id = zoneInventory'[resp'.id].floorInventoryId
     /\ \A p \in Procs :
          (req[p].op = "DeleteStockEntry" /\ req[p].pc = "delete"
           /\ req'[p].pc = "done" /\ req'[p].resp.status = 204)
            => \A a \in DOMAIN zoneInventory :
                 zoneInventory[a].floorInventoryId # req[p].id]_vars

(* C22. Allocate on an already-allocated pair: when a ZoneAllocation for   *)
(* (zoneId, floorStockId) exists, an Allocate for that pair is answered    *)
(* Conflict whatever quantity it asks for, and leaves the ZoneAllocations  *)
(* as they were.                                                           *)
C22_AllocateExistingPairConflict ==
  [][resp'.op = "Allocate" =>
     \A z \in Zones, f \in StockIds, q \in Quantities :
       (Allocate(z, f, q)
        /\ \E a \in DOMAIN zoneInventory :
             zoneInventory[a].zoneId = z /\ zoneInventory[a].floorInventoryId = f)
         => /\ ErrorKind(resp') = "Conflict"
            /\ zoneInventory' = zoneInventory]_vars

(* C23. Remove is tolerant of counter drift: on an existing placement of   *)
(* the given zone Remove succeeds and deletes exactly that placement,      *)
(* whatever quantity its allocation holds; on an absent placement it       *)
(* answers NotFound and on a placement of another zone InvalidReference,   *)
(* deleting nothing and changing no quantity.                              *)
C23_RemoveTolerant ==
  [][resp'.op = "Remove" =>
     \A z \in Zones, id \in ObjIds :
       Remove(z, id) =>
         IF id \notin DOMAIN zoneObject
         THEN /\ ErrorKind(resp') = "NotFound"
              /\ UNCHANGED <<zoneInventory, zoneObject>>
         ELSE IF zoneObject[id].zoneId # z
         THEN /\ ErrorKind(resp') = "InvalidReference"
              /\ UNCHANGED <<zoneInventory, zoneObject>>
         ELSE /\ resp'.status = 204
              /\ DOMAIN zoneObject' = DOMAIN zoneObject \ {id}
              /\ \A o \in DOMAIN zoneObject' : zoneObject'[o] = zoneObject[o]]_vars

(* A Remove has succeeded on a placement whose allocation a Re-allocate    *)
(* had set to 0: the placement is gone and the quantity is below 0         *)
C23_Witness ==
  /\ resp.op = "Remove" /\ resp.status = 204
  /\ resp.id \notin DOMAIN zoneObject
  /\ \E a \in DOMAIN zoneInventory : zoneInventory[a].quantity < 0

(* C24. Reservation is not altered by placement traffic: when every        *)
(* Allocate and Re-allocate sets the quantity 1, an allocation that no     *)
(* placement references holds the quantity 1, whatever Place and Remove    *)
(* requests ran on it, with Re-allocate between them or not.               *)
C24_ReservationKept ==
  \A a \in DOMAIN zoneInventory :
    PlacementsOf(zoneObject, a) = {} => zoneInventory[a].quantity = 1

(* C25, as stated.  Shrinking is always allowed: in every state, a         *)
(* Re-allocate to a quantity between 0 and the allocation's current        *)
(* quantity is not answered CapacityExceeded.                              *)
C25_ShrinkAlwaysAllowed ==
  [][resp'.op = "ReAllocate" =>
     \A id \in AllocIds, q \in Quantities :
       (ReAllocate(id, q) /\ id \in DOMAIN zoneInventory
        /\ q <= zoneInventory[id].quantity)
         => ErrorKind(resp') # "CapacityExceeded"]_vars

(* C25, amended.  In a state where the quantities allocated from the       *)
(* allocation's FloorStock sum to at most its count, a Re-allocate to a    *)
(* quantity between 0 and the allocation's current quantity succeeds.      *)
C25_ShrinkAllowedWithinCount ==
  [][resp'.op = "ReAllocate" =>
     \A id \in AllocIds, q \in Quantities :
       (/\ ReAllocate(id, q) /\ id \in DOMAIN zoneInventory
        /\ q <= zoneInventory[id].quantity
        /\ LET f == zoneInventory[id].floorInventoryId
           IN AllocatedSum(zoneInventory, f) <= floorInventory[f].count)
         => /\ resp'.status = 200
            /\ zoneInventory'[id].quantity = q]_vars

(* A Re-allocate has succeeded on a stock that stays allocated to the last *)
(* unit, which leaves room for a shrinking request only                    *)
C25_Witness ==
  /\ resp.op = "ReAllocate" /\ resp.status = 200
  /\ resp.id \in DOMAIN zoneInventory
  /\ LET f == zoneInventory[resp.id].floorInventoryId
     IN /\ AllocatedSumBut(zoneInventory, f, resp.id) = floorInventory[f].count
        /\ floorInventory[f].count > 0
        /\ zoneInventory[resp.id].quantity = 0

(* C26. Same-floor allocation: the zone of every ZoneInventory row lies on *)
(* the floor of the FloorInventory row the allocation draws from.          *)
C26_SameFloorAllocation ==
  \A a \in DOMAIN zoneInventory :
     ZoneFloor(zoneInventory[a].zoneId) =
       floorInventory[zoneInventory[a].floorInventoryId].floorId

(* C27. Concurrent Remove of the same placement: a Remove request that has *)
(* found the placement and then deletes it while the row is still there    *)
(* succeeds, deletes that one row and takes exactly one unit off the       *)
(* allocation's quantity; a Remove request whose delete comes after        *)
(* another request has deleted the row fails with NotFound and changes     *)
(* nothing; so of the Remove requests for one placement at most one        *)
(* succeeds.                                                               *)
C27_ConcurrentRemoveOnce ==
  [][/\ \A p \in Procs :
          (req[p].op = "Remove" /\ req[p].pc = "delete" /\ req'[p].pc = "done") =>
            IF req[p].id \in DOMAIN zoneObject
            THEN /\ req'[p].resp.status = 204
                 /\ zoneObject' = DeleteRows(zoneObject, {req[p].id})
                 /\ DOMAIN zoneInventory' = DOMAIN zoneInventory
                 /\ \A a \in DOMAIN zoneInventory :
                      zoneInventory'[a].quantity =
                        IF a = zoneObject[req[p].id].zoneInventoryId
                        THEN zoneInventory[a].quantity - 1
                        ELSE zoneInventory[a].quantity
            ELSE /\ ErrorKind(req'[p].resp) = "NotFound"
                 /\ UNCHANGED db
     /\ \A p, q \in Procs :
          (/\ p # q
           /\ req'[p].op = "Remove" /\ req'[p].pc = "done"
           /\ req'[q].op = "Remove" /\ req'[q].pc = "done"
           /\ req'[p].id = req'[q].id
           /\ req'[p].resp.status = 204)
          => req'[q].resp.status # 204]_vars

(* Two Remove requests for the placement of a one-unit allocation ran      *)
(* interleaved: one has succeeded, the other has failed with NotFound, the *)
(* placement is gone and the quantity, 2 after the Place, is 1             *)
C27_Witness ==
  \E p, q \in Procs :
    /\ p # q
    /\ req[p].op = "Remove" /\ req[p].pc = "done" /\ req[p].overlap
    /\ req[q].op = "Remove" /\ req[q].pc = "done" /\ req[q].overlap
    /\ req[p].id = req[q].id
    /\ req[p].resp.status = 204
    /\ ErrorKind(req[q].resp) = "NotFound"
    /\ req[p].id \notin DOMAIN zoneObject
    /\ seq.zoneObject = 1
    /\ req[p].zoneInventoryId \in DOMAIN zoneInventory
    /\ zoneInventory[req[p].zoneInventoryId].quantity = 1

(* C28. No lost counter updates: on every step of interleaved Place and    *)
(* Remove requests, the quantity of each allocation changes by the number  *)
(* of placement rows of that allocation inserted minus the number deleted, *)
(* so over any run the net change of the quantity equals the net change of *)
(* the allocation's placement rows, one unit per row.                      *)
C28_NoLostCounterUpdate ==
  [][\A a \in DOMAIN zoneInventory \cap DOMAIN zoneInventory' :
        zoneInventory'[a].quantity - zoneInventory[a].quantity =
          Cardinality(PlacementsOf(zoneObject', a))
            - Cardinality(PlacementsOf(zoneObject, a))]_vars

(* Two Place requests on the same one-unit allocation ran interleaved and  *)
(* both succeeded: two placement rows, and the quantity went from 1 to 3   *)
C28_Witness ==
  \E p, q \in Procs :
    /\ p # q
    /\ req[p].op = "Place" /\ req[p].pc = "done" /\ req[p].overlap
    /\ req[q].op = "Place" /\ req[q].pc = "done" /\ req[q].overlap
    /\ req[p].id = req[q].id
    /\ req[p].resp.status = 201 /\ req[q].resp.status = 201
    /\ req[p].id \in DOMAIN zoneInventory
    /\ Cardinality(PlacementsOf(zoneObject, req[p].id)) = 2
    /\ zoneInventory[req[p].id].quantity = 3

(* C29. Compute usage reports a consistent snapshot.  Stock is created,    *)
(* its count raised, and it is allocated and deallocated under the         *)
(* capacity check, so in every committed state of the store the            *)
(* allocations of a stock row sum to at most its count; a (count, used,    *)
(* available) triple taken from one committed state therefore has          *)
(* used <= count and available = count - used.                             *)
C29_UsageConsistentSnapshot ==
  /\ NoOvercommit(floorInventory, zoneInventory)
  /\ \A p \in Procs :
       (req[p].op = "ComputeUsage" /\ req[p].pc = "done") =>
         \A k \in DOMAIN req[p].resp.body :
            /\ req[p].resp.body[k].used <= req[p].resp.body[k].count
            /\ req[p].resp.body[k].available =
                 req[p].resp.body[k].count - req[p].resp.body[k].used

(* C30. Floor deletion leaves no inventory behind: after a successful      *)
(* floor delete, the FloorInventory rows of that floor, the ZoneInventory  *)
(* rows that draw from one of them or belong to a zone of that floor, and  *)
(* the ZoneObject rows of such an allocation or zone are gone, and every   *)
(* other row of the three tables is as it was.                             *)
C30_FloorDeleteLeavesNothing ==
  [][(resp'.op = "DeleteFloor" /\ resp'.status = 204) =>
       LET f == resp'.id
           goneStock == {i \in DOMAIN floorInventory :
                           floorInventory[i].floorId = f}
           goneAlloc == {a \in DOMAIN zoneInventory :
                           \/ zoneInventory[a].floorInventoryId \in goneStock
                           \/ ZoneFloor(zoneInventory[a].zoneId) = f}
           goneObj == {o \in DOMAIN zoneObject :
                         \/ zoneObject[o].zoneInventoryId \in goneAlloc
                         \/ ZoneFloor(zoneObject[o].zoneId) = f}
       IN /\ floorInventory' =
               [i \in DOMAIN floorInventory \ goneStock |-> floorInventory[i]]
          /\ zoneInventory' =
               [a \in DOMAIN zoneInventory \ goneAlloc |-> zoneInventory[a]]
          /\ zoneObject' =
               [o \in DOMAIN zoneObject \ goneObj |-> zoneObject[o]]]_vars

(* A floor has been deleted that had stock, an allocation and a placement: *)
(* two rows were inserted into each table, and one of each is left, those  *)
(* of the other floor                                                      *)
C30_Witness ==
  /\ resp.op = "DeleteFloor" /\ resp.status = 204
  /\ seq.floorInventory = 2 /\ seq.zoneInventory = 2 /\ seq.zoneObject = 2
  /\ \E i \in DOMAIN floorInventory, a \in DOMAIN zoneInventory,
        o \in DOMAIN zoneObject :
       /\ DOMAIN floorInventory = {i}
       /\ DOMAIN zoneInventory = {a}
       /\ DOMAIN zoneObject = {o}
       /\ floorInventory[i].floorId # resp.id
       /\ zoneInventory[a].floorInventoryId = i
       /\ ZoneFloor(zoneInventory[a].zoneId) # resp.id
       /\ zoneObject[o].zoneInventoryId = a

====
